---------------------------- MODULE Spec2Model ----------------------------
(***************************************************************************)
(* indy_node.server.node.Node: the node-level orchestration layer.         *)
(*                                                                         *)
(* The model follows src/indy_node/server/node.py handler by handler.     *)
(* Collaborators whose code is not part of node.py (Upgrader, PoolConfig,  *)
(* ConfigReqHandler, NodeAuthNr, the ledger manager and the request        *)
(* handlers of the consensus base class) are modelled through the          *)
(* interface the node uses and the behaviour the specification gives them. *)
(***************************************************************************)
EXTENDS Naturals, Sequences, FiniteSets, TLC

(***************************************************************************)
(* Bounds of the model.                                                    *)
(***************************************************************************)
MaxLedgerLen == 2      \* transactions the Config ledger may hold
MaxBatches == 2        \* batches the consensus core creates in one behaviour

(***************************************************************************)
(* Identifiers and enumerations.                                           *)
(***************************************************************************)
POOL_LEDGER_ID == "POOL"
DOMAIN_LEDGER_ID == "DOMAIN"
CONFIG_LEDGER_ID == "CONFIG"
\* PlenumNode.ledger_ids + [CONFIG_LEDGER_ID]
ledger_ids == {POOL_LEDGER_ID, DOMAIN_LEDGER_ID, CONFIG_LEDGER_ID}

\* LedgerState
not_synced == "not_synced"
syncing == "syncing"
synced == "synced"

\* transaction types
NODE_UPGRADE == "NODE_UPGRADE"
POOL_UPGRADE == "POOL_UPGRADE"
POOL_CONFIG == "POOL_CONFIG"
NYM == "NYM"
ATTRIB == "ATTRIB"
GET_NYM == "GET_NYM"

\* NODE_UPGRADE actions
IN_PROGRESS == "in_progress"
COMPLETE == "complete"
FAIL == "fail"

None == "None"
NodeId == "Alpha"            \* this node's id once the pool ledger is complete
OtherNode == "Beta"
Versions == {"1.1.0", "1.2.0"}
InitialVersion == "1.1.0"
LaterVersion == "1.3.0"      \* a version a later pool-upgrade may name
Times == {"T1", "T2"}

RunningStatus == "running"
StoppedStatus == "stopped"

\* ATTRIB transactions: the keys of the attribute fields, the values a field
\* of the dict may hold and the digest recorded on the ledger
RAW == "raw"
ENC == "enc"
Missing == "<no key>"        \* the key is not in the dict
AttrValues == {"v1", "v2"}
ledgerHashOf(v) == "sha256(" \o v \o ")"
AttrHashes == {ledgerHashOf(v) : v \in AttrValues}

(***************************************************************************)
(* Config ledger transactions: pool-configuration and pool-upgrade.        *)
(***************************************************************************)
PoolConfigTxn(w) ==
    [type |-> POOL_CONFIG, writes |-> w, version |-> None, when |-> None,
     dest |-> None]

PoolUpgradeTxn(v, t, d) ==
    [type |-> POOL_UPGRADE, writes |-> FALSE, version |-> v, when |-> t,
     dest |-> d]

ConfigTxns ==
    {PoolConfigTxn(w) : w \in BOOLEAN}
        \cup {PoolUpgradeTxn(v, t, d) : v \in Versions, t \in Times,
                                        d \in {NodeId, OtherNode}}

RECURSIVE SeqsUpTo(_, _)
SeqsUpTo(S, n) ==
    IF n = 0 THEN {<<>>}
    ELSE LET shorter == SeqsUpTo(S, n - 1)
         IN  shorter \cup {Append(q, x) : q \in shorter, x \in S}

\* indices of the transactions of one type, in ledger order
TxnsOfType(ledger, t) == {i \in 1..Len(ledger) : ledger[i].type = t}

Max(S) == CHOOSE x \in S : \A y \in S : y <= x


(***************************************************************************)
(* State.                                                                  *)
(*   persistent (survives a process restart):                              *)
(*     configLedger    the Config ledger                                   *)
(*     currentVersion  the version of the running binary                   *)
(*     upgradeLog      the UpgradeOutcomeRecord of the Upgrader            *)
(*   volatile (rebuilt by Node.__init__):                                  *)
(*     status, ledgerState, upgraderNodeId, poolCfgWritable,               *)
(*     scheduledUpgrade, upgradeInProgress, processing, forcedApplied,     *)
(*     timers          the armed upgrade timers of the Upgrader            *)
(*     ledgerStatuses  per ledger, the peers whose ledger status is        *)
(*                     stashed and those whose status was processed        *)
(*   environment and history:                                              *)
(*     resultSent      the last COMPLETE/FAIL message handed to the peers  *)
(*                     since upgradeLog was written for an attempt         *)
(*     ordered         the batches the consensus core created, in order    *)
(*     batchStatus     what consensus decided for each of them             *)
(*     handlers        per ledger, the request handler's batches and the   *)
(*                     committed state projection of the ledger            *)
(*     out             what the last event did (steps, messages, reply)    *)
(*     attributeStore  the secondary attribute store, hash -> value        *)
(*     ledgerTxn       a record of the Domain ledger, as the ledger holds  *)
(*                     it, that the read path rehydrates                   *)
(***************************************************************************)
VARIABLES status, ledgerState, upgraderNodeId, poolCfgWritable,
          scheduledUpgrade, upgradeInProgress, processing, forcedApplied,
          configLedger, currentVersion, upgradeLog,
          resultSent, ordered, batchStatus, handlers, out,
          attributeStore, ledgerTxn, timers, ledgerStatuses

vars == <<status, ledgerState, upgraderNodeId, poolCfgWritable,
          scheduledUpgrade, upgradeInProgress, processing, forcedApplied,
          configLedger, currentVersion, upgradeLog,
          resultSent, ordered, batchStatus, handlers, out,
          attributeStore, ledgerTxn, timers, ledgerStatuses>>

NoSchedule == [version |-> None, when |-> None]
NoRecord == [version |-> None, succeeded |-> FALSE, notifiedPeers |-> FALSE]
NoMsg == [action |-> None, version |-> None]
NoBatches == [uncommitted |-> <<>>, committed |-> <<>>, state |-> <<>>]
NoReq == [type |-> None, forced |-> FALSE, valid |-> FALSE, key |-> None,
          identifier |-> None, sigOk |-> FALSE]
NoAttrTxn == [type |-> None, raw |-> Missing, enc |-> Missing]
NoStore == [h \in {} |-> None]
NoStatuses == [stashed |-> {}, processed |-> {}]

\* the observable effects of one event, empty
NoOut(ev) ==
    [ev |-> ev, steps |-> <<>>, sent |-> <<>>, started |-> {},
     propagated |-> FALSE, forwarded |-> FALSE, applied |-> FALSE,
     query |-> FALSE, reply |-> None, crashed |-> FALSE, req |-> NoReq,
     txn |-> NoAttrTxn, lookups |-> {}, ledger |-> None, batch |-> 0]

\* the node's state as one value, so that a handler is a composition of steps
Cur ==
    [status |-> status, ledgerState |-> ledgerState,
     upgraderNodeId |-> upgraderNodeId, poolCfgWritable |-> poolCfgWritable,
     scheduledUpgrade |-> scheduledUpgrade,
     upgradeInProgress |-> upgradeInProgress, processing |-> processing,
     forcedApplied |-> forcedApplied, configLedger |-> configLedger,
     currentVersion |-> currentVersion, upgradeLog |-> upgradeLog,
     resultSent |-> resultSent, ordered |-> ordered,
     batchStatus |-> batchStatus, handlers |-> handlers, out |-> out,
     attributeStore |-> attributeStore, ledgerTxn |-> ledgerTxn,
     timers |-> timers, ledgerStatuses |-> ledgerStatuses]

Becomes(s) ==
    /\ status' = s.status
    /\ ledgerState' = s.ledgerState
    /\ upgraderNodeId' = s.upgraderNodeId
    /\ poolCfgWritable' = s.poolCfgWritable
    /\ scheduledUpgrade' = s.scheduledUpgrade
    /\ upgradeInProgress' = s.upgradeInProgress
    /\ processing' = s.processing
    /\ forcedApplied' = s.forcedApplied
    /\ configLedger' = s.configLedger
    /\ currentVersion' = s.currentVersion
    /\ upgradeLog' = s.upgradeLog
    /\ resultSent' = s.resultSent
    /\ ordered' = s.ordered
    /\ batchStatus' = s.batchStatus
    /\ handlers' = s.handlers
    /\ out' = s.out
    /\ attributeStore' = s.attributeStore
    /\ ledgerTxn' = s.ledgerTxn
    /\ timers' = s.timers
    /\ ledgerStatuses' = s.ledgerStatuses

Event(s, ev) == [s EXCEPT !.out = NoOut(ev)]
Step(s, name) == [s EXCEPT !.out.steps = Append(@, name)]

(***************************************************************************)
(* Collaborators.                                                          *)
(***************************************************************************)
\* PoolConfig.processLedger: writable as the last pool-configuration
\* transaction of the Config ledger sets it (writable when there is none)
WritableOf(ledger) ==
    LET idx == TxnsOfType(ledger, POOL_CONFIG)
    IN  IF idx = {} THEN TRUE ELSE ledger[Max(idx)].writes

poolCfg_processLedger(s) ==
    Step([s EXCEPT !.poolCfgWritable = WritableOf(s.configLedger)],
         "poolCfg.processLedger")

\* Upgrader.processLedger: the schedule of the last pool-upgrade transaction,
\* when it names this node and a version other than the running one; an
\* upgrade that is being executed is not rescheduled
ScheduleOf(ledger, nodeId, running) ==
    LET idx == TxnsOfType(ledger, POOL_UPGRADE)
    IN  IF idx = {} THEN NoSchedule
        ELSE LET t == ledger[Max(idx)]
             IN  IF t.dest = nodeId /\ t.version # running
                 THEN [version |-> t.version, when |-> t.when]
                 ELSE NoSchedule

Rescheduled(s) ==
    IF s.upgradeInProgress THEN s.scheduledUpgrade
    ELSE ScheduleOf(s.configLedger, s.upgraderNodeId, s.currentVersion)

\* Upgrader: the timer follows the schedule: the timer of a schedule that is
\* superseded is cancelled and one is armed for the new schedule
Retimed(s, schedule) ==
    IF s.upgradeInProgress THEN s.timers
    ELSE IF schedule = NoSchedule THEN {} ELSE {schedule}

upgrader_processLedger(s) ==
    Step([s EXCEPT !.scheduledUpgrade = Rescheduled(s),
                   !.timers = Retimed(s, Rescheduled(s))],
         "upgrader.processLedger")

\* Upgrader.should_notify_about_upgrade_result
should_notify_about_upgrade_result(s) ==
    s.upgradeLog.version # None /\ ~s.upgradeLog.notifiedPeers

\* Upgrader.didLastExecutedUpgradeSucceeded
didLastExecutedUpgradeSucceeded(s) == s.upgradeLog.succeeded

\* Upgrader.notified_about_upgrade_result: the flag is persisted
notified_about_upgrade_result(s) ==
    Step([s EXCEPT !.upgradeLog.notifiedPeers = TRUE],
         "upgrader.notified_about_upgrade_result")

\* LedgerManager: _sync_ledger marks the ledger as being synced
sync_ledger(s, lid) ==
    Step([s EXCEPT !.ledgerState[lid] = syncing], "sync_ledger " \o lid)

\* PlenumNode.startedProcessingReq
startedProcessingReq(s, key) ==
    Step([s EXCEPT !.processing = @ \cup {key}, !.out.started = @ \cup {key}],
         "startedProcessingReq")

\* PlenumNode.send: the message leaves for the peers
send(s, msg) ==
    Step([s EXCEPT !.out.sent = Append(@, msg),
                   !.resultSent = IF msg.action \in {COMPLETE, FAIL}
                                  THEN msg ELSE @],
         "send " \o msg.action)

\* wallet.signRequest(Request(operation=op)): the key of the node's own request
OwnKey(action, version) == "own " \o action \o " " \o version

\* the process dies: what Node.__init__ builds is lost
Crashed(s) ==
    [s EXCEPT !.status = StoppedStatus,
              !.ledgerState = [l \in ledger_ids |-> not_synced],
              !.upgraderNodeId = None,
              !.poolCfgWritable = TRUE,
              !.scheduledUpgrade = NoSchedule,
              !.upgradeInProgress = FALSE,
              !.timers = {},
              !.ledgerStatuses = [l \in ledger_ids |-> NoStatuses],
              !.processing = {},
              !.forcedApplied = {},
              !.handlers = [l \in ledger_ids |->
                               [@[l] EXCEPT !.uncommitted = <<>>]],
              !.batchStatus = [b \in DOMAIN @ |->
                                  IF @[b] = "created" THEN "dropped"
                                  ELSE @[b]],
              !.out.crashed = TRUE]

(***************************************************************************)
(* Catch-up sequencing and upgrade notification (node.py 205-284).         *)
(***************************************************************************)
\* LedgerManager.processLedgerStatus: the status of a peer for a ledger
\* whose sync has not started is stashed, any other is processed
processLedgerStatus(s, lid, peers) ==
    IF s.ledgerState[lid] = not_synced
    THEN [s EXCEPT !.ledgerStatuses[lid].stashed = @ \cup peers]
    ELSE [s EXCEPT !.ledgerStatuses[lid].processed = @ \cup peers]

\* LedgerManager.processStashedLedgerStatuses: the stashed statuses of the
\* ledger are taken from the stash and processed
processStashedLedgerStatuses(s, lid) ==
    Step(processLedgerStatus(
             [s EXCEPT !.ledgerStatuses[lid].stashed = {}],
             lid, s.ledgerStatuses[lid].stashed),
         "processStashedLedgerStatuses " \o lid)

\* mutant: the stashed statuses are replayed before the sync is started
start_config_ledger_sync_replayFirst(s) ==
    sync_ledger(processStashedLedgerStatuses(s, CONFIG_LEDGER_ID),
                CONFIG_LEDGER_ID)

\* Node.start_config_ledger_sync
start_config_ledger_sync(s) ==
    processStashedLedgerStatuses(sync_ledger(s, CONFIG_LEDGER_ID),
                                 CONFIG_LEDGER_ID)

\* PlenumNode.start_domain_ledger_sync
start_domain_ledger_sync(s) ==
    processStashedLedgerStatuses(sync_ledger(s, DOMAIN_LEDGER_ID),
                                 DOMAIN_LEDGER_ID)

\* mutant: the override is lost and the base class starts Domain sync
catchup_next_ledger_after_pool_base(s) == start_domain_ledger_sync(s)

\* Node.catchup_next_ledger_after_pool
catchup_next_ledger_after_pool(s) == start_config_ledger_sync(s)

\* mutant: the upgrader keeps the id it was constructed with
postPoolLedgerCaughtUp_noNodeId(s) == catchup_next_ledger_after_pool(s)

\* Node.postPoolLedgerCaughtUp
postPoolLedgerCaughtUp(s) ==
    catchup_next_ledger_after_pool(
        Step([s EXCEPT !.upgraderNodeId = NodeId], "upgrader.nodeId"))

\* mutant: the flag is persisted before the message is sent
acknowledge_upgrade_flagFirst(s, crashAt) ==
    IF ~should_notify_about_upgrade_result(s) THEN s
    ELSE LET lastUpgradeVersion == s.upgradeLog.version
             action == IF didLastExecutedUpgradeSucceeded(s)
                       THEN COMPLETE ELSE FAIL
             op == [action |-> action, version |-> lastUpgradeVersion]
             s1 == notified_about_upgrade_result(
                       startedProcessingReq(
                           s, OwnKey(action, lastUpgradeVersion)))
             s2 == send(s1, op)
         IN  CASE crashAt = "beforeSend" -> Crashed(s1)
               [] crashAt = "afterSend" -> Crashed(s2)
               [] OTHER -> s2

\* mutant: COMPLETE and FAIL are exchanged
acknowledge_upgrade_swapped(s, crashAt) ==
    IF ~should_notify_about_upgrade_result(s) THEN s
    ELSE LET lastUpgradeVersion == s.upgradeLog.version
             action == IF didLastExecutedUpgradeSucceeded(s)
                       THEN FAIL ELSE COMPLETE
             op == [action |-> action, version |-> lastUpgradeVersion]
             s1 == startedProcessingReq(s, OwnKey(action, lastUpgradeVersion))
             s2 == send(s1, op)
             s3 == notified_about_upgrade_result(s2)
         IN  CASE crashAt = "beforeSend" -> Crashed(s1)
               [] crashAt = "afterSend" -> Crashed(s2)
               [] OTHER -> s3

\* mutant: the outcome is sent whether or not it was notified before
acknowledge_upgrade_unguarded(s, crashAt) ==
    LET lastUpgradeVersion == s.upgradeLog.version
        action == IF didLastExecutedUpgradeSucceeded(s)
                  THEN COMPLETE ELSE FAIL
        op == [action |-> action, version |-> lastUpgradeVersion]
        s1 == startedProcessingReq(s, OwnKey(action, lastUpgradeVersion))
        s2 == send(s1, op)
        s3 == notified_about_upgrade_result(s2)
    IN  CASE crashAt = "beforeSend" -> Crashed(s1)
          [] crashAt = "afterSend" -> Crashed(s2)
          [] OTHER -> s3

\* Node.acknowledge_upgrade; crashAt is where the process dies, if it does
acknowledge_upgrade(s, crashAt) ==
    IF ~should_notify_about_upgrade_result(s) THEN s
    ELSE LET lastUpgradeVersion == s.upgradeLog.version
             action == IF didLastExecutedUpgradeSucceeded(s)
                       THEN COMPLETE ELSE FAIL
             op == [action |-> action, version |-> lastUpgradeVersion]
             s1 == startedProcessingReq(s, OwnKey(action, lastUpgradeVersion))
             s2 == send(s1, op)
             s3 == notified_about_upgrade_result(s2)
         IN  CASE crashAt = "beforeSend" -> Crashed(s1)
               [] crashAt = "afterSend" -> Crashed(s2)
               [] OTHER -> s3

\* mutant: the upgrade outcome is never acknowledged
postConfigLedgerCaughtUp_noAck(s, crashAt) ==
    start_domain_ledger_sync(
        upgrader_processLedger(poolCfg_processLedger(s)))

\* mutant: Domain sync and the acknowledgement run before the recomputation
postConfigLedgerCaughtUp_syncFirst(s, crashAt) ==
    LET s1 == acknowledge_upgrade(start_domain_ledger_sync(s), crashAt)
    IN  IF s1.out.crashed THEN s1
        ELSE upgrader_processLedger(poolCfg_processLedger(s1))

\* Node.postConfigLedgerCaughtUp
postConfigLedgerCaughtUp(s, crashAt) ==
    acknowledge_upgrade(
        start_domain_ledger_sync(
            upgrader_processLedger(poolCfg_processLedger(s))),
        crashAt)

\* mutant: the version is read from the last upgrade event, as
\* acknowledge_upgrade reads it
notify_upgrade_start_lastEvent(s) ==
    LET lastUpgradeVersion == s.upgradeLog.version
        op == [action |-> IN_PROGRESS, version |-> lastUpgradeVersion]
    IN  send(startedProcessingReq(
                 s, OwnKey(IN_PROGRESS, lastUpgradeVersion)), op)

\* Node.notify_upgrade_start
notify_upgrade_start(s) ==
    LET scheduled_upgrade_version == s.scheduledUpgrade.version
        op == [action |-> IN_PROGRESS, version |-> scheduled_upgrade_version]
    IN  send(startedProcessingReq(
                 s, OwnKey(IN_PROGRESS, scheduled_upgrade_version)), op)

\* Node.__init__ with Node.getUpgrader: what a start of the process builds.
\* The Upgrader compares the version of an outcome not yet notified with the
\* running one; the pool ledger starts syncing.
Constructed(s, id) ==
    [s EXCEPT !.status = RunningStatus,
              !.ledgerState = [l \in ledger_ids |->
                                  IF l = POOL_LEDGER_ID THEN syncing
                                  ELSE not_synced],
              !.upgraderNodeId = id,
              !.poolCfgWritable = TRUE,
              !.scheduledUpgrade = NoSchedule,
              !.upgradeInProgress = FALSE,
              !.timers = {},
              !.ledgerStatuses = [l \in ledger_ids |-> NoStatuses],
              !.processing = {},
              !.forcedApplied = {},
              !.upgradeLog.succeeded =
                  IF should_notify_about_upgrade_result(s)
                  THEN s.upgradeLog.version = s.currentVersion
                  ELSE @]

\* Upgrader: an armed timer fires (Node.prod, upgrader.service): the start
\* callback, the outcome record of the attempt, the executor for the version
\* the timer was armed for
upgrader_timer_fired(s, t) ==
    LET s1 == notify_upgrade_start(s)
    IN  Step([s1 EXCEPT !.upgradeLog =
                            [version |-> t.version,
                             succeeded |-> FALSE, notifiedPeers |-> FALSE],
                        !.resultSent = NoMsg,
                        !.timers = @ \ {t},
                        !.upgradeInProgress = TRUE],
             "upgrader.execute")

\* Upgrader: the executor reported failure: the outcome is a failure and the
\* upgradeFailedCallback of Node.getUpgrader runs
upgrader_failed(s, crashAt) ==
    postConfigLedgerCaughtUp(
        Step([s EXCEPT !.upgradeLog.succeeded = FALSE,
                       !.upgradeInProgress = FALSE,
                       !.scheduledUpgrade = NoSchedule,
                       !.timers = {}],
             "upgradeFailedCallback"),
        crashAt)

CrashPoints == {"none", "beforeSend", "afterSend"}

CanCrashAt(s, crashAt) ==
    crashAt = "none"
        \/ should_notify_about_upgrade_result(s)

(***************************************************************************)
(* Requests (node.py 286-357).                                             *)
(***************************************************************************)
WriteTypes == {NYM, POOL_CONFIG, POOL_UPGRADE}
QueryTypes == {GET_NYM}
ReqKeys == {"req1"}
Identifiers == {OtherNode, "client"}
PoolNodes == {NodeId, OtherNode}
ReadOnlyReason == "Pool is in readonly mode, try again in 60 seconds"
ValidationReason == "validation failed"

ClientRequests ==
    {[NoReq EXCEPT !.type = t, !.forced = fo, !.valid = v] :
        t \in WriteTypes \cup QueryTypes, fo \in BOOLEAN, v \in BOOLEAN}

NodeRequests ==
    {[NoReq EXCEPT !.type = t, !.key = k, !.identifier = i, !.sigOk = g] :
        t \in {NODE_UPGRADE, NYM}, k \in ReqKeys, i \in Identifiers,
        g \in BOOLEAN}

\* PlenumNode.is_query
is_query(t) == t \in QueryTypes

\* ConfigReqHandler.validate: raises for a request that is not valid
validate(request) == request.valid

\* ConfigReqHandler.applyForced: the request is applied to the handler's state
applyForced(s, request) ==
    Step([s EXCEPT !.forcedApplied = @ \cup {request.type},
                   !.out.applied = TRUE],
         "configReqHandler.applyForced")

\* PlenumNode.processRequest: the normal request pipeline
super_processRequest(s, request) ==
    Step([s EXCEPT !.out.forwarded = TRUE], "super.processRequest")

\* PlenumNode.process_query
process_query(s, request) ==
    Step([s EXCEPT !.out.query = TRUE], "process_query")

\* self.total_read_request_number += 1: a statistic, kept as a step only
count_read_request(s) == Step(s, "total_read_request_number += 1")

\* raise InvalidClientRequest(identifier, reqId, reason)
InvalidClientRequest(s, reason) == [s EXCEPT !.out.reply = reason]

\* mutant: the gate has no exception for governance requests
processRequest_noEscape(s0, request) ==
    LET s == [s0 EXCEPT !.out.req = request]
        governance == request.type \in {POOL_UPGRADE, POOL_CONFIG}
    IN  IF is_query(request.type)
        THEN count_read_request(process_query(s, request))
        ELSE IF governance /\ request.forced /\ ~validate(request)
        THEN InvalidClientRequest(Step(s, "configReqHandler.validate"),
                                  ValidationReason)
        ELSE LET s1 == IF governance /\ request.forced
                       THEN applyForced(
                                Step(s, "configReqHandler.validate"), request)
                       ELSE s
             IN  IF s1.poolCfgWritable
                 THEN super_processRequest(s1, request)
                 ELSE InvalidClientRequest(s1, ReadOnlyReason)

\* mutant: a forced request is applied without being validated
processRequest_unvalidated(s0, request) ==
    LET s == [s0 EXCEPT !.out.req = request]
        governance == request.type \in {POOL_UPGRADE, POOL_CONFIG}
        s1 == IF governance /\ request.forced
              THEN applyForced(s, request)
              ELSE s
    IN  IF is_query(request.type)
        THEN count_read_request(process_query(s, request))
        ELSE IF s1.poolCfgWritable \/ governance
        THEN super_processRequest(s1, request)
        ELSE InvalidClientRequest(s1, ReadOnlyReason)

\* mutant: the gate is consulted before the request is told from a query
processRequest_gateFirst(s0, request) ==
    LET s == [s0 EXCEPT !.out.req = request]
        governance == request.type \in {POOL_UPGRADE, POOL_CONFIG}
    IN  IF ~s.poolCfgWritable /\ ~governance
        THEN InvalidClientRequest(s, ReadOnlyReason)
        ELSE IF is_query(request.type)
        THEN count_read_request(process_query(s, request))
        ELSE IF governance /\ request.forced /\ ~validate(request)
        THEN InvalidClientRequest(Step(s, "configReqHandler.validate"),
                                  ValidationReason)
        ELSE LET s1 == IF governance /\ request.forced
                       THEN applyForced(
                                Step(s, "configReqHandler.validate"), request)
                       ELSE s
             IN  super_processRequest(s1, request)

\* Node.processRequest
processRequest(s0, request) ==
    LET s == [s0 EXCEPT !.out.req = request]
        governance == request.type \in {POOL_UPGRADE, POOL_CONFIG}
    IN  IF is_query(request.type)
        THEN count_read_request(process_query(s, request))
        ELSE IF governance /\ request.forced /\ ~validate(request)
        THEN InvalidClientRequest(Step(s, "configReqHandler.validate"),
                                  ValidationReason)
        ELSE LET s1 == IF governance /\ request.forced
                       THEN applyForced(
                                Step(s, "configReqHandler.validate"), request)
                       ELSE s
             IN  IF s1.poolCfgWritable \/ governance
                 THEN super_processRequest(s1, request)
                 ELSE InvalidClientRequest(s1, ReadOnlyReason)

\* NodeAuthNr.authenticate: the identifier is a node of the pool ledger and
\* the signature over the operation data is that node's
authenticate(request) == request.identifier \in PoolNodes /\ request.sigOk

\* PlenumNode.recordAndPropagate
recordAndPropagate(s, request) ==
    Step([s EXCEPT !.out.propagated = TRUE], "recordAndPropagate")

\* mutant: a failed authentication is logged and the request goes on
processNodeRequest_noReturn(s0, request) ==
    LET s == [s0 EXCEPT !.out.req = request]
        s0a == IF request.type = NODE_UPGRADE /\ ~authenticate(request)
               THEN Step(s, "logger.warning")
               ELSE s
        s1 == IF request.key \notin s0a.processing
              THEN startedProcessingReq(s0a, request.key)
              ELSE s0a
    IN  recordAndPropagate(s1, request)

\* Node.processNodeRequest
processNodeRequest(s0, request) ==
    LET s == [s0 EXCEPT !.out.req = request]
    IN  IF request.type = NODE_UPGRADE /\ ~authenticate(request)
        THEN Step(s, "logger.warning")
        ELSE LET s1 == IF request.key \notin s.processing
                       THEN startedProcessingReq(s, request.key)
                       ELSE s
             IN  recordAndPropagate(s1, request)

(***************************************************************************)
(* Batch dispatch (node.py 359-375, 402-412).  A batch is known by its     *)
(* number in the order the consensus core created the batches; the state   *)
(* root handed to the callbacks stands for it.                             *)
(***************************************************************************)
DomainTxn ==
    [type |-> NYM, writes |-> FALSE, version |-> None, when |-> None,
     dest |-> None]

\* the transactions of a batch: one or two requests of the ledger
BatchTxns(lid) ==
    IF lid = CONFIG_LEDGER_ID
    THEN {<<PoolUpgradeTxn("1.2.0", "T1", NodeId)>>,
          <<PoolUpgradeTxn(LaterVersion, "T2", NodeId)>>,
          <<PoolConfigTxn(FALSE), PoolUpgradeTxn("1.2.0", "T1", NodeId)>>}
    ELSE IF lid = DOMAIN_LEDGER_ID
    THEN {<<DomainTxn>>, <<DomainTxn, DomainTxn>>}
    ELSE {<<DomainTxn>>}

\* batches of one ledger that consensus holds in the given state
BatchesIn(lid, st) ==
    {b \in 1..Len(ordered) : ordered[b].ledger = lid /\ batchStatus[b] = st}

Min(S) == CHOOSE x \in S : \A y \in S : x <= y

RECURSIVE Ascending(_)
Ascending(S) ==
    IF S = {} THEN <<>> ELSE <<Min(S)>> \o Ascending(S \ {Min(S)})

\* RequestHandler.onBatchCreated(stateRoot)
handler_onBatchCreated(s, lid, b) ==
    Step([s EXCEPT !.handlers[lid].uncommitted = Append(@, b)],
         "handler.onBatchCreated " \o lid)

\* RequestHandler.onBatchRejected(): the last uncommitted batch is reverted
handler_onBatchRejected(s, lid) ==
    Step([s EXCEPT !.handlers[lid].uncommitted =
                       IF @ = <<>> THEN @ ELSE SubSeq(@, 1, Len(@) - 1)],
         "handler.onBatchRejected " \o lid)

\* ConfigReqHandler.commit: the transactions join the Config ledger, and
\* PoolConfig and the upgrade schedule follow the ledger
config_committed(s, txns) ==
    LET s1 == [s EXCEPT !.configLedger = @ \o txns]
    IN  [s1 EXCEPT !.poolCfgWritable = WritableOf(s1.configLedger),
                   !.scheduledUpgrade = Rescheduled(s1),
                   !.timers = Retimed(s1, Rescheduled(s1))]

\* PlenumNode.commitAndSendReplies: the handler commits its first
\* uncommitted batch, which is the one the state root names
commitAndSendReplies(s, lid, b) ==
    LET h == s.handlers[lid]
    IN  IF h.uncommitted = <<>> \/ Head(h.uncommitted) # b
        THEN Step([s EXCEPT !.out.reply = "commit failed"],
                  "handler.commit " \o lid)
        ELSE LET s1 == [s EXCEPT !.handlers[lid] =
                                      [uncommitted |-> Tail(h.uncommitted),
                                       committed |-> Append(h.committed, b),
                                       state |-> h.state \o s.ordered[b].txns]]
                 s2 == IF lid = CONFIG_LEDGER_ID
                       THEN config_committed(s1, s.ordered[b].txns)
                       ELSE s1
             IN  Step(s2, "handler.commit " \o lid)

\* PlenumNode.get_req_handler
get_req_handler(lid) == lid

\* PlenumNode.onBatchCreated: the Pool and Domain handlers
super_onBatchCreated(s, ledgerId, b) ==
    IF ledgerId \in {POOL_LEDGER_ID, DOMAIN_LEDGER_ID}
    THEN handler_onBatchCreated(s, ledgerId, b)
    ELSE s

\* PlenumNode.onBatchRejected: the Pool and Domain handlers
super_onBatchRejected(s, ledgerId) ==
    IF ledgerId \in {POOL_LEDGER_ID, DOMAIN_LEDGER_ID}
    THEN handler_onBatchRejected(s, ledgerId)
    ELSE s

\* mutant: every created batch goes to the base class
onBatchCreated_super(s, ledgerId, b) == super_onBatchCreated(s, ledgerId, b)

\* Node.onBatchCreated
onBatchCreated(s, ledgerId, b) ==
    IF ledgerId = CONFIG_LEDGER_ID
    THEN handler_onBatchCreated(s, CONFIG_LEDGER_ID, b)
    ELSE super_onBatchCreated(s, ledgerId, b)

\* mutant: every rejection goes to the base class
onBatchRejected_super(s, ledgerId) == super_onBatchRejected(s, ledgerId)

\* Node.onBatchRejected
onBatchRejected(s, ledgerId) ==
    IF ledgerId = CONFIG_LEDGER_ID
    THEN handler_onBatchRejected(s, CONFIG_LEDGER_ID)
    ELSE super_onBatchRejected(s, ledgerId)

\* Node.executeDomainTxns
executeDomainTxns(s, b) ==
    commitAndSendReplies(s, get_req_handler(DOMAIN_LEDGER_ID), b)

\* mutant: the handler is looked up as executeDomainTxns looks it up
executeConfigTxns_domain(s, b) ==
    commitAndSendReplies(s, get_req_handler(DOMAIN_LEDGER_ID), b)

\* mutant: the requests of the batch are applied again before the commit
executeConfigTxns_reapply(s, b) ==
    commitAndSendReplies(
        handler_onBatchCreated(s, get_req_handler(CONFIG_LEDGER_ID), b),
        get_req_handler(CONFIG_LEDGER_ID), b)

\* Node.executeConfigTxns
executeConfigTxns(s, b) ==
    commitAndSendReplies(s, get_req_handler(CONFIG_LEDGER_ID), b)

\* PlenumNode.executePoolTxns
executePoolTxns(s, b) ==
    commitAndSendReplies(s, get_req_handler(POOL_LEDGER_ID), b)

\* self.requestExecuter[ledgerId], with the entry Node.__init__ adds
requestExecuter(s, ledgerId, b) ==
    CASE ledgerId = CONFIG_LEDGER_ID -> executeConfigTxns(s, b)
      [] ledgerId = DOMAIN_LEDGER_ID -> executeDomainTxns(s, b)
      [] OTHER -> executePoolTxns(s, b)

(***************************************************************************)
(* Attribute rehydration (node.py 377-393).  A dict is a record whose      *)
(* fields hold Missing where the dict has no such key.                     *)
(***************************************************************************)
\* the records the Domain ledger may hold: the attribute fields carry digests
AttribTxns ==
    {[type |-> t, raw |-> r, enc |-> e] :
        t \in {ATTRIB, NYM},
        r \in {Missing, None} \cup AttrHashes,
        e \in {Missing, None} \cup AttrHashes}

\* AttributeStore.put(hash, value)
attributeStore_put(s, hash, value) ==
    Step([s EXCEPT !.attributeStore =
                       [h \in DOMAIN @ \cup {hash} |->
                           IF h = hash THEN value ELSE @[h]]],
         "attributeStore.put")

\* AttributeStore.get(hash) -> value | absent: absent is None
attributeStore_get(s, hash) ==
    IF hash \in DOMAIN s.attributeStore THEN s.attributeStore[hash] ELSE None

\* the ledger hands out a dict built from the record it stores
ledger_getBySeqNo(s) == s.ledgerTxn

\* mutant: the type of the transaction is not looked at
update_txn_with_extra_data_anyType(s, txn) ==
    LET key == IF txn[RAW] # Missing /\ txn[RAW] # None THEN RAW
               ELSE IF txn[ENC] # Missing /\ txn[ENC] # None THEN ENC
               ELSE None
    IN  IF key # None
        THEN Step([s EXCEPT !.out.txn =
                                [txn EXCEPT ![key] =
                                     attributeStore_get(s, txn[key])],
                            !.out.lookups = @ \cup {txn[key]}],
                  "attributeStore.get")
        ELSE [s EXCEPT !.out.txn = txn]

\* Node.update_txn_with_extra_data: the dict passed is changed in place and
\* returned; out.txn is that dict, out.lookups the keys asked of the store
update_txn_with_extra_data(s, txn) ==
    IF txn.type = ATTRIB
    THEN LET key == IF txn[RAW] # Missing /\ txn[RAW] # None THEN RAW
                    ELSE IF txn[ENC] # Missing /\ txn[ENC] # None THEN ENC
                    ELSE None
         IN  IF key # None
             THEN Step([s EXCEPT !.out.txn =
                                     [txn EXCEPT ![key] =
                                          attributeStore_get(s, txn[key])],
                                 !.out.lookups = @ \cup {txn[key]}],
                       "attributeStore.get")
             ELSE [s EXCEPT !.out.txn = txn]
    ELSE [s EXCEPT !.out.txn = txn]

(***************************************************************************)
(* Events.                                                                 *)
(***************************************************************************)
\* the state a first start of the process builds, over the given Config
\* ledgers and Domain ledger records
InitOver(ledgers, records) ==
    /\ configLedger \in ledgers
    /\ ledgerTxn \in records
    /\ attributeStore = NoStore
    /\ timers = {}
    /\ ledgerStatuses = [l \in ledger_ids |-> NoStatuses]
    /\ currentVersion = InitialVersion
    /\ upgradeLog = NoRecord
    /\ resultSent = NoMsg
    /\ out = NoOut("Start")
    /\ status = RunningStatus
    /\ ledgerState = [l \in ledger_ids |->
                         IF l = POOL_LEDGER_ID THEN syncing ELSE not_synced]
    /\ upgraderNodeId \in {None, NodeId}
    /\ poolCfgWritable = TRUE
    /\ scheduledUpgrade = NoSchedule
    /\ upgradeInProgress = FALSE
    /\ processing = {}
    /\ forcedApplied = {}
    /\ ordered = <<>>
    /\ batchStatus = <<>>
    /\ handlers = [l \in ledger_ids |-> NoBatches]

InitWith(ledgers) == InitOver(ledgers, {NoAttrTxn})

Init == InitWith(SeqsUpTo(ConfigTxns, MaxLedgerLen))

Start ==
    /\ status = StoppedStatus
    /\ \E id \in {None, NodeId} : Becomes(Constructed(Event(Cur, "Start"), id))

Crash ==
    /\ status = RunningStatus
    /\ Becomes(Crashed(Event(Cur, "Crash")))

PoolCaughtUp ==
    /\ status = RunningStatus
    /\ ledgerState[POOL_LEDGER_ID] = syncing
    /\ Becomes(postPoolLedgerCaughtUp(
           [Event(Cur, "PoolCaughtUp")
               EXCEPT !.ledgerState[POOL_LEDGER_ID] = synced]))

ConfigCaughtUp ==
    /\ status = RunningStatus
    /\ ledgerState[CONFIG_LEDGER_ID] = syncing
    /\ \E crashAt \in CrashPoints :
          /\ CanCrashAt(Cur, crashAt)
          /\ Becomes(postConfigLedgerCaughtUp(
                 [Event(Cur, "ConfigCaughtUp")
                     EXCEPT !.ledgerState[CONFIG_LEDGER_ID] = synced],
                 crashAt))

DomainCaughtUp ==
    /\ status = RunningStatus
    /\ ledgerState[DOMAIN_LEDGER_ID] = syncing
    /\ Becomes([Event(Cur, "DomainCaughtUp")
                   EXCEPT !.ledgerState[DOMAIN_LEDGER_ID] = synced])

UpgradeTimer ==
    /\ status = RunningStatus
    /\ ~upgradeInProgress
    /\ \E t \in timers :
          Becomes(upgrader_timer_fired(Event(Cur, "UpgradeTimer"), t))

\* the executor installed the scheduled version and restarts the process
UpgradeSucceeded ==
    /\ status = RunningStatus
    /\ upgradeInProgress
    /\ Becomes([Crashed(Event(Cur, "UpgradeSucceeded"))
                   EXCEPT !.currentVersion = scheduledUpgrade.version,
                          !.out.crashed = FALSE])

UpgradeFailed ==
    /\ status = RunningStatus
    /\ upgradeInProgress
    /\ \E crashAt \in CrashPoints :
          /\ Becomes(upgrader_failed(Event(Cur, "UpgradeFailed"), crashAt))

ProcessRequest ==
    /\ status = RunningStatus
    /\ \E request \in ClientRequests :
          Becomes(processRequest(Event(Cur, "processRequest"), request))

ProcessNodeRequest ==
    /\ status = RunningStatus
    /\ \E request \in NodeRequests :
          Becomes(processNodeRequest(Event(Cur, "processNodeRequest"),
                                     request))

\* the consensus core applies a new batch and tells the node
BatchCreated ==
    /\ status = RunningStatus
    /\ Len(ordered) < MaxBatches
    /\ \E lid \in ledger_ids : \E txns \in BatchTxns(lid) :
          LET b == Len(ordered) + 1
              s == [Event(Cur, "onBatchCreated")
                       EXCEPT !.ordered = Append(@, [ledger |-> lid,
                                                     txns |-> txns]),
                              !.batchStatus = Append(@, "created"),
                              !.out.ledger = lid, !.out.batch = b]
          IN  Becomes(onBatchCreated(s, lid, b))

\* the consensus core discards the last batch of a ledger not yet ordered
BatchRejected ==
    /\ status = RunningStatus
    /\ \E lid \in ledger_ids :
          /\ BatchesIn(lid, "created") # {}
          /\ LET b == Max(BatchesIn(lid, "created"))
                 s == [Event(Cur, "onBatchRejected")
                          EXCEPT !.batchStatus[b] = "rejected",
                                 !.out.ledger = lid, !.out.batch = b]
             IN  Becomes(onBatchRejected(s, lid))

\* the consensus core ordered the first batch of a ledger not yet ordered
ExecuteBatch ==
    /\ status = RunningStatus
    /\ \E lid \in ledger_ids :
          /\ BatchesIn(lid, "created") # {}
          /\ LET b == Min(BatchesIn(lid, "created"))
                 s == [Event(Cur, "execute")
                          EXCEPT !.batchStatus[b] = "ordered",
                                 !.out.ledger = lid, !.out.batch = b]
             IN  Becomes(requestExecuter(s, lid, b))

\* the consensus core delivers the execute call of a batch it ordered once
\* more, as it does when the node comes back from a restart
ReExecuteBatch ==
    /\ status = RunningStatus
    /\ \E lid \in ledger_ids : \E b \in BatchesIn(lid, "ordered") :
          LET s == [Event(Cur, "re-execute")
                       EXCEPT !.out.ledger = lid, !.out.batch = b]
          IN  Becomes(requestExecuter(s, lid, b))

Next ==
    \/ Start
    \/ Crash
    \/ PoolCaughtUp
    \/ ConfigCaughtUp
    \/ DomainCaughtUp
    \/ UpgradeTimer
    \/ UpgradeSucceeded
    \/ UpgradeFailed

Spec == Init /\ [][Next]_vars

(***************************************************************************)
(* Request handling: the catch-up events and the two request handlers,     *)
(* over Config ledgers of pool-configuration transactions.                 *)
(***************************************************************************)
InitReq == InitWith(SeqsUpTo({PoolConfigTxn(w) : w \in BOOLEAN}, MaxLedgerLen))

NextReq ==
    \/ Start
    \/ Crash
    \/ PoolCaughtUp
    \/ ConfigCaughtUp
    \/ DomainCaughtUp
    \/ ProcessRequest
    \/ ProcessNodeRequest

SpecReq == InitReq /\ [][NextReq]_vars

(***************************************************************************)
(* Batch dispatch: the catch-up events, the upgrade timer and the batch    *)
(* callbacks of the consensus core, from an empty Config ledger.           *)
(***************************************************************************)
InitBatch == InitWith({<<>>})

NextBatch ==
    \/ Start
    \/ Crash
    \/ PoolCaughtUp
    \/ ConfigCaughtUp
    \/ DomainCaughtUp
    \/ UpgradeTimer
    \/ BatchCreated
    \/ BatchRejected
    \/ ExecuteBatch
    \/ ReExecuteBatch

SpecBatch == InitBatch /\ [][NextBatch]_vars

(***************************************************************************)
(* Ledger statuses of peers: the catch-up events and the ledger status     *)
(* messages of the peers, from an empty Config ledger.                     *)
(***************************************************************************)
Peers == {OtherNode, "Gamma"}

\* a peer sends its status of a ledger
LedgerStatusReceived ==
    /\ status = RunningStatus
    /\ \E lid \in ledger_ids : \E peer \in Peers :
          Becomes(processLedgerStatus(
                      [Event(Cur, "processLedgerStatus")
                          EXCEPT !.out.ledger = lid],
                      lid, {peer}))

NextStash ==
    \/ Start
    \/ Crash
    \/ PoolCaughtUp
    \/ ConfigCaughtUp
    \/ DomainCaughtUp
    \/ LedgerStatusReceived

SpecStash == InitBatch /\ [][NextStash]_vars

(***************************************************************************)
(* Attribute rehydration: the secondary store is filled and the read path  *)
(* rehydrates the record of the ledger, over every record and store.       *)
(***************************************************************************)
\* the Domain request handler stores the value of an attribute under its digest
PutAttribute ==
    /\ status = RunningStatus
    /\ \E v \in AttrValues :
          Becomes(attributeStore_put(Event(Cur, "put"), ledgerHashOf(v), v))

\* the read path reads the record from the ledger and rehydrates it
Rehydrate ==
    /\ status = RunningStatus
    /\ Becomes(update_txn_with_extra_data(
                   Event(Cur, "update_txn_with_extra_data"),
                   ledger_getBySeqNo(Cur)))

InitAttr == InitOver({<<>>}, AttribTxns)

NextAttr ==
    \/ PutAttribute
    \/ Rehydrate

SpecAttr == InitAttr /\ [][NextAttr]_vars


(***************************************************************************)
(* Properties.                                                             *)
(***************************************************************************)
\* position of the first occurrence of a step in the last event (0: none)
FirstStep(name) ==
    IF \E i \in 1..Len(out.steps) : out.steps[i] = name
    THEN Min({i \in 1..Len(out.steps) : out.steps[i] = name})
    ELSE 0

\* the last event handed this message to the peers
SentInEvent(msg) == \E i \in 1..Len(out.sent) : out.sent[i] = msg

\* C1: Config sync is never started before Pool sync has completed, and
\* Domain sync is never started before Config sync has completed, whatever
\* the sequence of sync milestones, upgrade timers and upgrade failures (the
\* upgrade-failed callback, which runs postConfigLedgerCaughtUp, included).
C1_SyncSequencing ==
    /\ ledgerState[CONFIG_LEDGER_ID] # not_synced
           => ledgerState[POOL_LEDGER_ID] = synced
    /\ ledgerState[DOMAIN_LEDGER_ID] # not_synced
           => ledgerState[CONFIG_LEDGER_ID] = synced
    /\ FirstStep("sync_ledger " \o CONFIG_LEDGER_ID) > 0 /\ ~out.crashed
           => ledgerState[POOL_LEDGER_ID] = synced
    /\ FirstStep("sync_ledger " \o DOMAIN_LEDGER_ID) > 0 /\ ~out.crashed
           => ledgerState[CONFIG_LEDGER_ID] = synced

\* the upgrade-failed callback started Domain sync
C1_Witness ==
    /\ out.ev = "UpgradeFailed"
    /\ ~out.crashed
    /\ FirstStep("sync_ledger " \o DOMAIN_LEDGER_ID) > 0
    /\ ledgerState[DOMAIN_LEDGER_ID] = syncing

\* C2: when Config sync completes without a crash, an upgrade outcome that
\* was persisted and not yet notified (however many crashes came between the
\* write of the outcome and the send) has had a COMPLETE or FAIL message for
\* its version sent to the peers: never zero messages.
C2_OutcomeNotifiedAfterConfigSync ==
    (out.ev = "ConfigCaughtUp" /\ ~out.crashed /\ upgradeLog.version # None)
        => /\ resultSent.version = upgradeLog.version
           /\ resultSent.action \in {COMPLETE, FAIL}
           /\ upgradeLog.notifiedPeers

\* after a restart, the Config-synced event sent the pending outcome
C2_Witness ==
    /\ out.ev = "ConfigCaughtUp"
    /\ ~out.crashed
    /\ Len(out.sent) = 1
    /\ out.sent[1].version = upgradeLog.version
    /\ out.sent[1].action \in {COMPLETE, FAIL}

\* C4: notifiedPeers is persisted only after the send of the COMPLETE/FAIL
\* message was attempted: in no state, those reached by a crash at any step
\* included, is the flag set for an outcome for which nothing was sent.
C4_FlagOnlyAfterSend ==
    upgradeLog.notifiedPeers
        => /\ resultSent.version = upgradeLog.version
           /\ resultSent.action \in {COMPLETE, FAIL}

\* the send was attempted and the process died before the flag was persisted
C4_Witness ==
    /\ out.crashed
    /\ Len(out.sent) = 1
    /\ resultSent.version = upgradeLog.version
    /\ ~upgradeLog.notifiedPeers

\* C7: in a Config-synced event PoolConfig and the upgrade schedule are
\* recomputed first, then Domain sync is started, then the pending outcome is
\* sent: no start of Domain sync and no notification precedes the
\* recomputation, and an event that did not crash ran all of them.
C7_ConfigSyncedOrder ==
    out.ev = "ConfigCaughtUp" =>
        LET pc == FirstStep("poolCfg.processLedger")
            up == FirstStep("upgrader.processLedger")
            dm == FirstStep("sync_ledger " \o DOMAIN_LEDGER_ID)
            sn == Max({FirstStep("send " \o COMPLETE),
                       FirstStep("send " \o FAIL)})
        IN  /\ dm > 0 => (0 < pc /\ pc < up /\ up < dm)
            /\ sn > 0 => (0 < dm /\ dm < sn)
            /\ ~out.crashed => (0 < pc /\ pc < up /\ up < dm)
            /\ ~out.crashed /\ Len(out.sent) > 0 => dm < sn

\* a Config-synced event that recomputed, started Domain sync and notified
C7_Witness ==
    /\ out.ev = "ConfigCaughtUp"
    /\ ~out.crashed
    /\ Len(out.sent) = 1
    /\ ledgerState[DOMAIN_LEDGER_ID] = syncing

\* C8: a failure the upgrade executor reports reaches the peers as a
\* NODE_UPGRADE message with action FAIL for the failed version; the action
\* of every outcome message is COMPLETE exactly when the last executed
\* upgrade succeeded; and the failure does not stop the node.
C8_FailureSurfaced ==
    /\ (out.ev = "UpgradeFailed" /\ ~out.crashed)
           => /\ status = RunningStatus
              /\ out.sent = <<[action |-> FAIL,
                               version |-> upgradeLog.version]>>
              /\ ~upgradeLog.succeeded
    /\ \A i \in 1..Len(out.sent) :
           out.sent[i].action \in {COMPLETE, FAIL}
               => /\ out.sent[i].version = upgradeLog.version
                  /\ (out.sent[i].action = COMPLETE) <=> upgradeLog.succeeded
    /\ \A i \in 1..Len(out.sent) :
           out.sent[i].action \in {COMPLETE, FAIL}
               => ((out.sent[i].action = COMPLETE)
                      <=> out.sent[i].version = currentVersion)

\* the executor failed, FAIL was sent and the node runs
C8_Witness ==
    /\ out.ev = "UpgradeFailed"
    /\ status = RunningStatus
    /\ SentInEvent([action |-> FAIL, version |-> "1.2.0"])
    /\ currentVersion = InitialVersion

\* C9: after a start in which Pool sync and then Config sync completed,
\* PoolConfig.writable is what the last pool-configuration transaction of the
\* Config ledger sets, and when the last pool-upgrade transaction names this
\* node for a version other than the running one, the timer is armed for its
\* time and version; the upgrader has this node's id from Pool sync on.
C9_ColdStartState ==
    /\ (out.ev = "ConfigCaughtUp" /\ ~out.crashed) =>
           /\ \A i \in 1..Len(configLedger) :
                  (/\ configLedger[i].type = POOL_CONFIG
                   /\ \A j \in (i + 1)..Len(configLedger) :
                          configLedger[j].type # POOL_CONFIG)
                      => poolCfgWritable = configLedger[i].writes
           /\ \A i \in 1..Len(configLedger) :
                  (/\ configLedger[i].type = POOL_UPGRADE
                   /\ \A j \in (i + 1)..Len(configLedger) :
                          configLedger[j].type # POOL_UPGRADE
                   /\ configLedger[i].dest = NodeId
                   /\ configLedger[i].version # currentVersion)
                      => /\ scheduledUpgrade.version = configLedger[i].version
                         /\ scheduledUpgrade.when = configLedger[i].when
    /\ (status = RunningStatus /\ ledgerState[POOL_LEDGER_ID] = synced)
           => upgraderNodeId = NodeId

\* the scenario of the specification: writable=false and a schedule for 1.2.0
C9_Witness ==
    /\ out.ev = "ConfigCaughtUp"
    /\ ~out.crashed
    /\ configLedger = <<PoolConfigTxn(FALSE),
                        PoolUpgradeTxn("1.2.0", "T1", NodeId)>>
    /\ poolCfgWritable = FALSE
    /\ scheduledUpgrade = [version |-> "1.2.0", when |-> "T1"]

\* the request the last event handled
IsGovernance(req) == req.type \in {POOL_UPGRADE, POOL_CONFIG}
Handled(ev) == out.ev = ev

\* C3 as stated: with writable false a POOL_CONFIG or POOL_UPGRADE request
\* is forwarded and any other write request is rejected with the read-only
\* reason and not forwarded; with writable true both kinds are forwarded.
C3_GateAsStated ==
    (Handled("processRequest") /\ out.req.type \in WriteTypes) =>
        IF poolCfgWritable \/ IsGovernance(out.req)
        THEN out.forwarded /\ out.reply = None
        ELSE ~out.forwarded /\ out.reply = ReadOnlyReason

\* C3, amended: the same, except that a forced governance request that fails
\* the validation of the Config request handler is rejected by it and is not
\* forwarded, whatever writable is.
C3_Gate ==
    (Handled("processRequest") /\ out.req.type \in WriteTypes) =>
        IF IsGovernance(out.req) /\ out.req.forced /\ ~out.req.valid
        THEN ~out.forwarded /\ out.reply = ValidationReason
        ELSE IF poolCfgWritable \/ IsGovernance(out.req)
        THEN out.forwarded /\ out.reply = None
        ELSE ~out.forwarded /\ out.reply = ReadOnlyReason

\* a read-only pool forwarded a governance request
C3_Witness ==
    /\ Handled("processRequest")
    /\ ~poolCfgWritable
    /\ out.req.type = POOL_CONFIG
    /\ out.forwarded

\* C5: a NODE_UPGRADE message from a peer is recorded as being processed and
\* propagated exactly when its authentication succeeded; when it failed the
\* message is dropped: nothing is recorded or propagated, no reply is
\* produced and the node's state is as it was.
C5_NodeUpgradeAuthenticated ==
    [][(out'.ev = "processNodeRequest" /\ out'.req.type = NODE_UPGRADE) =>
          IF authenticate(out'.req)
          THEN /\ out'.propagated
               /\ out'.req.key \in processing'
               /\ out'.started = {out'.req.key} \ processing
          ELSE /\ ~out'.propagated
               /\ out'.started = {}
               /\ out'.sent = <<>>
               /\ out'.reply = None
               /\ ~out'.forwarded
               /\ UNCHANGED <<status, ledgerState, upgraderNodeId,
                              poolCfgWritable, scheduledUpgrade,
                              upgradeInProgress, processing, forcedApplied,
                              configLedger, currentVersion, upgradeLog,
                              resultSent, ordered, batchStatus, handlers,
                              attributeStore, ledgerTxn, timers,
                              ledgerStatuses>>]_vars

\* a NODE_UPGRADE message whose authentication failed was dropped
C5_Witness ==
    /\ Handled("processNodeRequest")
    /\ out.req.type = NODE_UPGRADE
    /\ ~authenticate(out.req)
    /\ ~out.propagated
    /\ out.req.key \notin processing

\* C6: a POOL_UPGRADE or POOL_CONFIG request with the forced flag is applied
\* to the Config request handler's state inside processRequest, after the
\* handler's validation and only when it passed, whether the pool is writable
\* or not; when the validation fails the request is neither applied nor
\* forwarded; no other request is ever force-applied.
C6_ForcedApplied ==
    Handled("processRequest") =>
        LET va == FirstStep("configReqHandler.validate")
            ap == FirstStep("configReqHandler.applyForced")
            fw == FirstStep("super.processRequest")
        IN  /\ out.applied
                  <=> (IsGovernance(out.req) /\ out.req.forced
                          /\ out.req.valid)
            /\ out.applied <=> ap > 0
            /\ out.applied => /\ out.req.type \in forcedApplied
                              /\ 0 < va /\ va < ap
                              /\ out.forwarded /\ ap < fw
            /\ (IsGovernance(out.req) /\ out.req.forced /\ ~out.req.valid)
                  => ~out.applied /\ ~out.forwarded

\* a forced request was applied while the pool was read-only
C6_Witness ==
    /\ Handled("processRequest")
    /\ out.applied
    /\ ~poolCfgWritable
    /\ out.req.type = POOL_CONFIG
    /\ POOL_CONFIG \in forcedApplied

\* C10: for each ledger, the request handler holds the batches of that
\* ledger in the order consensus created them: the committed ones are the
\* batches consensus ordered, the uncommitted ones those it created and has
\* neither ordered nor rejected, both in consensus order.
C10_BatchOrder ==
    \A lid \in ledger_ids :
        /\ handlers[lid].committed = Ascending(BatchesIn(lid, "ordered"))
        /\ handlers[lid].uncommitted = Ascending(BatchesIn(lid, "created"))

\* two batches of the Config ledger, the first committed before the second
C10_Witness ==
    /\ Len(ordered) >= 2
    /\ ordered[1].ledger = CONFIG_LEDGER_ID
    /\ ordered[2].ledger = CONFIG_LEDGER_ID
    /\ handlers[CONFIG_LEDGER_ID].committed = <<1, 2>>

\* the transactions of a sequence of batches, in order
RECURSIVE TxnsOfBatches(_)
TxnsOfBatches(bs) ==
    IF bs = <<>> THEN <<>>
    ELSE ordered[Head(bs)].txns \o TxnsOfBatches(Tail(bs))

\* C11: no batch is partially applied: after any sequence of onBatchCreated,
\* onBatchRejected and execute events the committed state projection of
\* each ledger (and the Config ledger itself) holds all the transactions of
\* every batch consensus ordered, in order, and none of the transactions of
\* a batch that was rejected or is not yet ordered: a rejected batch leaves
\* the committed projection as it was.
C11_BatchAtomic ==
    /\ \A lid \in ledger_ids :
           handlers[lid].state
               = TxnsOfBatches(Ascending(BatchesIn(lid, "ordered")))
    /\ configLedger = handlers[CONFIG_LEDGER_ID].state

\* a Config batch of two transactions was rejected and left nothing, and a
\* later one of two transactions was committed whole
C11_Witness ==
    /\ Len(ordered) >= 2
    /\ ordered[1].ledger = CONFIG_LEDGER_ID
    /\ Len(ordered[1].txns) = 2
    /\ batchStatus[1] = "rejected"
    /\ ordered[2].ledger = CONFIG_LEDGER_ID
    /\ Len(ordered[2].txns) = 2
    /\ batchStatus[2] = "ordered"
    /\ configLedger = ordered[2].txns

\* the attribute field of a ledger record that holds a digest (None: neither)
AttrKey(txn) ==
    IF txn[RAW] \notin {Missing, None} THEN RAW
    ELSE IF txn[ENC] \notin {Missing, None} THEN ENC
    ELSE None

Rehydrated == out.ev = "update_txn_with_extra_data"

\* C12: for every attribute value v, after put(ledgerHashOf(v), v) the
\* rehydration of an ATTRIB record whose RAW (or ENC) field holds
\* ledgerHashOf(v) returns a transaction whose field is exactly v; for a
\* digest the store does not hold, rehydration signals a miss and returns no
\* transaction with an empty value in the field.
C12_RoundTrip ==
    (Rehydrated /\ ledgerTxn.type = ATTRIB /\ AttrKey(ledgerTxn) # None) =>
        LET k == AttrKey(ledgerTxn)
            h == ledgerTxn[k]
        IN  /\ \A v \in AttrValues :
                   (/\ h = ledgerHashOf(v)
                    /\ h \in DOMAIN attributeStore
                    /\ attributeStore[h] = v)
                       => out.txn[k] = v /\ out.reply = None
            /\ h \notin DOMAIN attributeStore
                   => out.reply # None /\ out.txn[k] # None

C14_QueriesNotGated ==
    Handled("processRequest") =>
        /\ out.query <=> out.req.type \in QueryTypes
        /\ out.req.type \in QueryTypes
               => /\ out.steps = <<"process_query",
                                   "total_read_request_number += 1">>
                  /\ out.reply = None
                  /\ ~out.applied
                  /\ ~out.forwarded
                  /\ forcedApplied \cap QueryTypes = {}

\* a read-only pool answered a query
C14_Witness ==
    /\ Handled("processRequest")
    /\ ~poolCfgWritable
    /\ out.req.type = GET_NYM
    /\ out.query
    /\ out.reply = None

\* the pool-upgrade transactions of the Config ledger and the last of them
UpgradeTxns == TxnsOfType(configLedger, POOL_UPGRADE)
LastUpgradeTxn == configLedger[Max(UpgradeTxns)]

\* C15: when a later Config batch supersedes an upgrade schedule before its
\* timer fired, the timer of the superseded schedule is cancelled: every
\* armed timer is for the time and version of the last pool-upgrade
\* transaction of the Config ledger, and a timer that fires sends
\* IN_PROGRESS for that version and starts the upgrade to that version,
\* never to a version that was superseded.
C15_StaleTimerCancelled ==
    /\ \A t \in timers :
           /\ UpgradeTxns # {}
           /\ t.version = LastUpgradeTxn.version
           /\ t.when = LastUpgradeTxn.when
    /\ out.ev = "UpgradeTimer"
           => /\ UpgradeTxns # {}
              /\ out.sent = <<[action |-> IN_PROGRESS,
                               version |-> LastUpgradeTxn.version]>>
              /\ upgradeLog.version = LastUpgradeTxn.version
              /\ timers = {}

\* a batch scheduled 1.2.0, a later batch superseded it, and the timer that
\* fired announced and started the later version
C15_Witness ==
    /\ out.ev = "UpgradeTimer"
    /\ handlers[CONFIG_LEDGER_ID].committed = <<1, 2>>
    /\ ordered[1].txns = <<PoolUpgradeTxn("1.2.0", "T1", NodeId)>>
    /\ ordered[2].txns = <<PoolUpgradeTxn(LaterVersion, "T2", NodeId)>>
    /\ out.sent = <<[action |-> IN_PROGRESS, version |-> LaterVersion]>>
    /\ upgradeLog.version = LaterVersion

C19_RoutedByLedgerId ==
    [][out'.ev \in {"onBatchCreated", "onBatchRejected", "execute",
                   "re-execute"} =>
          LET lid == out'.ledger
              b == out'.batch
              old == handlers[lid]
              new == handlers'[lid]
          IN  /\ lid \in ledger_ids
              /\ \A l \in ledger_ids \ {lid} : handlers'[l] = handlers[l]
              /\ lid # CONFIG_LEDGER_ID
                     => /\ configLedger' = configLedger
                        /\ poolCfgWritable' = poolCfgWritable
                        /\ scheduledUpgrade' = scheduledUpgrade
              /\ out'.ev = "onBatchCreated"
                     => new = [old EXCEPT !.uncommitted = Append(@, b)]
              /\ out'.ev = "onBatchRejected"
                     => /\ old.uncommitted # <<>>
                        /\ b = old.uncommitted[Len(old.uncommitted)]
                        /\ new = [old EXCEPT !.uncommitted =
                                      SubSeq(@, 1, Len(@) - 1)]
              /\ out'.ev = "execute"
                     => /\ old.uncommitted # <<>>
                        /\ b = Head(old.uncommitted)
                        /\ new.uncommitted = Tail(old.uncommitted)
                        /\ new.committed = Append(old.committed, b)
                        /\ new.state = old.state \o ordered[b].txns
              /\ (out'.ev = "execute" /\ lid = CONFIG_LEDGER_ID)
                     => configLedger' = configLedger \o ordered[b].txns]_vars

\* a Config batch was committed while a Domain batch waited in its handler
C19_Witness ==
    /\ out.ev = "execute"
    /\ out.ledger = CONFIG_LEDGER_ID
    /\ handlers[CONFIG_LEDGER_ID].committed = <<out.batch>>
    /\ Len(handlers[DOMAIN_LEDGER_ID].uncommitted) = 1
    /\ handlers[DOMAIN_LEDGER_ID].state = <<>>
    /\ Len(configLedger) = 2

\* the order of the states of a ledger within a catch-up round
Rank(st) == CASE st = not_synced -> 0 [] st = syncing -> 1 [] OTHER -> 2

\* the handler of the last event started the sync of the ledger
SyncStarted(o, lid) ==
    \E i \in 1..Len(o.steps) : o.steps[i] = "sync_ledger " \o lid

\* C17: within a catch-up round (between one start of the process and its
\* end) the state of each ledger only moves not_synced -> syncing -> synced,
\* and the sync of a ledger is started at most once: no event, a repeated
\* postConfigLedgerCaughtUp run as the upgrade-failed callback included,
\* starts the sync of a ledger that is already syncing or synced or moves
\* its state back.
C17_LedgerStateMonotonic ==
    [][(out'.ev \notin {"Start", "Crash", "UpgradeSucceeded"}
           /\ ~out'.crashed) =>
          \A lid \in ledger_ids :
              /\ Rank(ledgerState'[lid]) >= Rank(ledgerState[lid])
              /\ SyncStarted(out', lid) => ledgerState[lid] = not_synced]_vars

\* C18: once notifiedPeers is persisted for an outcome, every later run of
\* acknowledge_upgrade for that outcome (in further Config-synced events,
\* after further restarts) sends nothing, marks no request as being
\* processed and changes nothing; so does every run in which
\* should_notify_about_upgrade_result is false: the handler ends with the
\* start of Domain sync, and the outcome record, the requests in process
\* and the messages sent are as they were.
C18_AcknowledgeIdempotent ==
    [][(out'.ev = "ConfigCaughtUp"
           /\ ~should_notify_about_upgrade_result(Cur)) =>
          /\ out'.sent = <<>>
          /\ out'.started = {}
          /\ ~out'.crashed
          /\ out'.steps[Len(out'.steps)]
                 = "processStashedLedgerStatuses " \o DOMAIN_LEDGER_ID
          /\ processing' = processing
          /\ upgradeLog' = upgradeLog
          /\ resultSent' = resultSent
          /\ status' = status]_vars

\* the outcome was notified in an earlier run, and a Config-synced event
\* after a restart sent nothing
C18_Witness ==
    /\ out.ev = "ConfigCaughtUp"
    /\ upgradeLog.notifiedPeers
    /\ resultSent.version = upgradeLog.version
    /\ out.sent = <<>>
    /\ processing = {}

\* C20: a Config ledger status a peer sent before this node started Config
\* sync is stashed, and is processed when start_config_ledger_sync starts
\* the sync: while the process lives no stashed status is dropped, none is
\* processed while Config sync has not started, and none is left in the
\* stash once it has.
C20_StashedStatusesReplayed ==
    [][(out'.ev \notin {"Start", "Crash"} /\ ~out'.crashed) =>
          LET old == ledgerStatuses[CONFIG_LEDGER_ID]
              new == ledgerStatuses'[CONFIG_LEDGER_ID]
          IN  /\ old.stashed \subseteq new.stashed \cup new.processed
              /\ old.processed \subseteq new.processed
              /\ new.stashed # {}
                     => ledgerState'[CONFIG_LEDGER_ID] = not_synced
              /\ new.processed # {}
                     => ledgerState'[CONFIG_LEDGER_ID] # not_synced
              /\ (out'.ev = "processLedgerStatus"
                     /\ out'.ledger = CONFIG_LEDGER_ID
                     /\ ledgerState[CONFIG_LEDGER_ID] = not_synced)
                     => new.stashed # {} /\ new.processed = {}]_vars

\* the statuses of two peers were stashed, and the start of Config sync
\* processed both
C20_Witness ==
    /\ out.ev = "PoolCaughtUp"
    /\ ledgerState[CONFIG_LEDGER_ID] = syncing
    /\ ledgerStatuses[CONFIG_LEDGER_ID]
           = [stashed |-> {}, processed |-> Peers]

=============================================================================
